---- MODULE Spec2Model ----
(***************************************************************************)
(* Model of the finance newsletter: backend.py (filter_news, price_data,   *)
(* build_newsletter, send_newsletter) and the Streamlit script ui.py.      *)
(*                                                                         *)
(* A Python str is a sequence of one-character strings; a literal of the   *)
(* source that is never inspected character by character is kept as one    *)
(* element (one "chunk") of such a sequence.                               *)
(***************************************************************************)
EXTENDS Integers, Sequences, FiniteSets, TLC

VARIABLES
    fpc,            \* filter_news call: "ready" | "done"
    fArticles,      \* its argument articles: sequence of <<title, link>>
    fTickers,       \* its argument tickers: sequence of str
    fResult,        \* its return value: sequence of <<t, title, link>>
    pd_pc,          \* price_data call: "ready" | "done"
    pd_tickers,     \* its argument tickers
    pd_df,          \* what yf.download returned to it
    pd_ret,         \* its outcome: [exc, table, png64]
    sg_env,         \* the process environment's SENDGRID_API_KEY
    outbox,         \* messages handed to SendGridAPIClient(sg_key).send
    s_calls,        \* invocations of send_newsletter: [to, md, img, exc]
    pc,             \* build_newsletter: the statement it is at
    tickers,        \* its argument tickers
    region,         \* its argument region
    macro,          \* its local macro
    matched,        \* its local matched
    idx,            \* position of the summary loop in matched[:6]
    article_block,  \* its local article_block
    prices,         \* its local prices
    chart64,        \* its local chart64
    md,             \* its local md
    exc,            \* the exception it raised, "" for none
    log,            \* the external calls it made, with their outcomes
    email,          \* ui.py: value of the "Email" text input
    ui_region,      \* value of the "Region" selectbox
    fields,         \* st.session_state.tickers
    clicked,        \* the button whose press started the current script run
    upc,            \* where the script run is: "idle" when it has ended
    page,           \* what the run has rendered below the form
    confirmed       \* what was on the page when "Send Newsletter" was pressed

fvars == <<fpc, fArticles, fTickers, fResult>>
pdvars == <<pd_pc, pd_tickers, pd_df, pd_ret>>
svars == <<sg_env, outbox, s_calls>>
bvars == <<pc, tickers, region, macro, matched, idx, article_block, prices,
           chart64, md, exc, log>>
uvars == <<email, ui_region, fields, clicked, upc, page, confirmed>>
vars == <<fvars, pdvars, svars, bvars, uvars>>

(***************************************************************************)
(* Strings                                                                 *)
(***************************************************************************)
Lower == <<"a","b","c","d","e","f","g","h","i","j","k","l","m",
           "n","o","p","q","r","s","t","u","v","w","x","y","z">>
Upper == <<"A","B","C","D","E","F","G","H","I","J","K","L","M",
           "N","O","P","Q","R","S","T","U","V","W","X","Y","Z">>

\* the upper-case letter of each lower-case letter
UpperOf ==
    [c \in {Lower[i] : i \in 1..Len(Lower)} |->
        Upper[CHOOSE i \in 1..Len(Lower) : Lower[i] = c]]

\* str.upper() on one character
upper_char(c) == IF c \in DOMAIN UpperOf THEN UpperOf[c] ELSE c

\* str.upper()
upper(s) == [i \in 1..Len(s) |-> upper_char(s[i])]

\* faulty variant: every character of sub occurs somewhere in s
contains_chars(sub, s) ==
    \A i \in 1..Len(sub) : \E j \in 1..Len(s) : s[j] = sub[i]

\* Python's  sub in s  for two str
contains(sub, s) ==
    \E i \in 0..(Len(s) - Len(sub)) : SubSeq(s, i + 1, i + Len(sub)) = sub

(***************************************************************************)
(* filter_news                                                             *)
(***************************************************************************)
RECURSIVE last_match(_, _, _)
\* faulty variant: the inner loop without its break keeps the last matching ticker
last_match(up, title, j) ==
    IF j > Len(up) THEN <<>>
    ELSE LET rest == last_match(up, title, j + 1)
         IN  IF rest # <<>> THEN rest
             ELSE IF contains(up[j], upper(title)) THEN <<up[j]>> ELSE <<>>

RECURSIVE first_match(_, _, _)
\* the inner loop  for t in upper: if t in title.upper(): ...; break
\* <<t>> for the first matching ticker from position j on, <<>> when none
first_match(up, title, j) ==
    IF j > Len(up) THEN <<>>
    ELSE IF contains(up[j], upper(title)) THEN <<up[j]>>
    ELSE first_match(up, title, j + 1)

RECURSIVE filter_loop(_, _, _, _)
\* the outer loop  for title, link in articles
filter_loop(articles, up, i, matches) ==
    IF i > Len(articles) THEN matches
    ELSE LET title == articles[i][1]
             link  == articles[i][2]
             m     == first_match(up, title, 1)
         IN  filter_loop(articles, up, i + 1,
                         IF m = <<>> THEN matches
                         ELSE Append(matches, <<m[1], title, link>>))

filter_news(articles, tickers_) ==
    LET up == [j \in 1..Len(tickers_) |-> upper(tickers_[j])]
    IN  filter_loop(articles, up, 1, <<>>)

(***************************************************************************)
(* Inputs of the filter_news specification                                 *)
(***************************************************************************)
MaxArticles == 2
MaxFilterTickers == 2

SeqsUpTo(S, n) == UNION {[1..k -> S] : k \in 0..n}

AppleTitle == <<"A","p","p","l","e"," ","u","n","v","e","i","l","s"," ",
                "n","e","w"," ","i","P","h","o","n","e">>
AaplTitle  == <<"A","A","P","L"," ","u","n","v","e","i","l","s"," ",
                "n","e","w"," ","i","P","h","o","n","e">>
AAPL == <<"A","A","P","L">>
MSFT == <<"M","S","F","T">>
GOOG == <<"G","O","O","G">>
ScenarioTickers == <<AAPL, MSFT, GOOG>>

FilterArticles ==
    { << <<"B","a">>, "u" >>,
      << <<"x","A","b">>, "v" >>,
      << <<"x","A","b">>, "w" >>,
      << <<>>, "e" >>,
      << AppleTitle, "apple" >>,
      << AaplTitle, "aapl" >> }

FilterSymbols == { <<"a","b">>, <<"B">>, <<"b","x">>, <<>>, AAPL }

FilterIdle ==
    /\ fpc = "idle"
    /\ fArticles = <<>>
    /\ fTickers = <<>>
    /\ fResult = <<>>

FilterInit ==
    /\ fpc = "ready"
    /\ fArticles \in SeqsUpTo(FilterArticles, MaxArticles)
    /\ fTickers \in SeqsUpTo(FilterSymbols, MaxFilterTickers) \cup {ScenarioTickers}
    /\ fResult = <<>>

CallFilterNews ==
    /\ fpc = "ready"
    /\ fResult' = filter_news(fArticles, fTickers)
    /\ fpc' = "done"
    /\ UNCHANGED <<fArticles, fTickers>>
    /\ UNCHANGED <<pdvars, svars, bvars, uvars>>

(***************************************************************************)
(* Reference result of filter_news, stated without the loops               *)
(***************************************************************************)
UpperTickers(T) == [j \in 1..Len(T) |-> upper(T[j])]

Matches(F, T, i) ==
    {j \in 1..Len(T) : contains(UpperTickers(T)[j], upper(F[i][1]))}

MatchedIdx(F, T) == {i \in 1..Len(F) : Matches(F, T, i) # {}}

Kth(I, k) == CHOOSE i \in I : Cardinality({x \in I : x < i}) = k - 1

MinOf(S) == CHOOSE x \in S : \A y \in S : x <= y

Reference(F, T) ==
    [k \in 1..Cardinality(MatchedIdx(F, T)) |->
        LET i == Kth(MatchedIdx(F, T), k)
        IN  <<UpperTickers(T)[MinOf(Matches(F, T, i))], F[i][1], F[i][2]>>]

\* C2: filter_news(F, T) equals the reference result: articles in input order,
\* each emitted once with the first ticker of upper-cased T contained in the
\* upper-cased title, articles with no such ticker dropped; so the output is no
\* longer than F and every emitted ticker is an element of T upper-cased.
C2_FilterEqualsReference ==
    fpc = "done" =>
        /\ fResult = Reference(fArticles, fTickers)
        /\ Len(fResult) <= Len(fArticles)
        /\ \A k \in 1..Len(fResult) :
              \E j \in 1..Len(fTickers) : fResult[k][1] = upper(fTickers[j])

\* two tickers match the second article, the first article is dropped
C2_Witness ==
    /\ fpc = "done"
    /\ Len(fArticles) = 2
    /\ Len(fResult) = 1
    /\ Cardinality(Matches(fArticles, fTickers, 2)) = 2
    /\ fResult[1][1] = upper(fTickers[1])
    /\ upper(fTickers[1]) # upper(fTickers[2])

HasArticle(title) == \E i \in 1..Len(fArticles) : fArticles[i][1] = title

\* C3 as stated: with tickers AAPL, MSFT, GOOG the article titled
\* "Apple unveils new iPhone" is matched with ticker AAPL.
C3_AppleMatchedAsStated ==
    (fpc = "done" /\ fTickers = ScenarioTickers /\ HasArticle(AppleTitle)) =>
        \E k \in 1..Len(fResult) : fResult[k][1] = AAPL /\ fResult[k][2] = AppleTitle

\* C3 amended: with tickers AAPL, MSFT, GOOG the article titled
\* "Apple unveils new iPhone" is dropped (no ticker symbol is a substring of
\* its upper-cased title), and an article titled "AAPL unveils new iPhone"
\* is matched with ticker AAPL.
C3_AppleDroppedAaplMatched ==
    (fpc = "done" /\ fTickers = ScenarioTickers) =>
        /\ \A k \in 1..Len(fResult) : fResult[k][2] # AppleTitle
        /\ HasArticle(AaplTitle) =>
              \E k \in 1..Len(fResult) :
                  fResult[k] = <<AAPL, AaplTitle, "aapl">>

C3_Witness ==
    /\ fpc = "done"
    /\ fTickers = ScenarioTickers
    /\ HasArticle(AppleTitle)
    /\ HasArticle(AaplTitle)
    /\ Len(fResult) = 1

(***************************************************************************)
(* price_data                                                              *)
(*                                                                         *)
(* A download is [raised, n, cols]: yf.download raised, or returned a      *)
(* frame of n rows (dates) in which cols[t], for the tickers t it has      *)
(* columns for, says whether t has a "Close" column and gives its values.  *)
(* Prices are in thousandths; NaN is a missing value.                      *)
(***************************************************************************)
NaN == -1

MaxRows == 2

PriceValues == {NaN, 10456}

Range(f) == {f[x] : x \in DOMAIN f}

ColStatus(n) ==
    {[close |-> FALSE, series |-> <<>>]} \cup
    {[close |-> TRUE, series |-> s] : s \in [1..n -> PriceValues]}

Downloads(tickers_) ==
    {[raised |-> TRUE, n |-> 0, cols |-> <<>>]} \cup
    UNION { UNION { {[raised |-> FALSE, n |-> n, cols |-> c] : c \in [S -> ColStatus(n)]}
                    : S \in SUBSET Range(tickers_) }
            : n \in 0..MaxRows }

\* df.empty: no rows or no columns
df_empty(df) == df.n = 0 \/ DOMAIN df.cols = {}

RECURSIVE closes_loop(_, _, _, _)
\* for t in tickers: try: closes[t] = df[t]["Close"] except KeyError: pass
\* the dict's keys in insertion order
closes_loop(tickers_, df, i, keys) ==
    IF i > Len(tickers_) THEN keys
    ELSE LET t == tickers_[i]
         IN  closes_loop(tickers_, df, i + 1,
                 IF t \in DOMAIN df.cols /\ df.cols[t].close /\ t \notin Range(keys)
                 THEN Append(keys, t) ELSE keys)

\* pd.DataFrame(closes).dropna(): the rows in which no column is missing
dropna_rows(keys, df) ==
    SelectSeq([r \in 1..df.n |-> r],
              LAMBDA r : \A k \in 1..Len(keys) : df.cols[keys[k]].series[r] # NaN)

\* round to two decimals (half to even), on thousandths
round2(v) ==
    LET q == v \div 10
        r == v % 10
    IN  IF r < 5 THEN q * 10
        ELSE IF r > 5 THEN (q + 1) * 10
        ELSE IF q % 2 = 0 THEN q * 10 ELSE (q + 1) * 10

NoTable == [columns |-> <<>>, data |-> <<>>]

PdRaise(msg) == [exc |-> msg, table |-> NoTable, png64 |-> <<>>]

RECURSIVE plot_lines(_, _, _)
\* for t in cum_ret.columns: plt.plot(cum_ret.index, cum_ret[t] * 100, label=t)
\* cum_ret = close_df / close_df.iloc[0] - 1, here in basis points
plot_lines(keys, vals, k) ==
    IF k > Len(keys) THEN <<>>
    ELSE <<"line:">> \o keys[k]
         \o [r \in 1..Len(vals) |->
                ToString((vals[r][k] * 10000) \div vals[1][k] - 10000)]
         \o plot_lines(keys, vals, k + 1)

\* price_data(tickers) on the download df
price_data(tickers_, df) ==
    IF df.raised THEN PdRaise("download failed")
    ELSE IF df_empty(df) THEN PdRaise("yfinance returned no data.")
    ELSE LET keys == closes_loop(tickers_, df, 1, <<>>)
             rows == dropna_rows(keys, df)
             vals == [i \in 1..Len(rows) |->
                        [k \in 1..Len(keys) |-> df.cols[keys[k]].series[rows[i]]]]
         IN  IF keys = <<>> THEN PdRaise("No Close column in download.")
             ELSE IF rows = <<>> THEN PdRaise("IndexError")   \* close_df.iloc[0]
             ELSE [exc |-> "",
                   table |-> [columns |-> keys,
                              data |-> [i \in 1..Len(vals) |->
                                         [k \in 1..Len(keys) |-> round2(vals[i][k])]]],
                   png64 |-> <<"png:">> \o plot_lines(keys, vals, 1)]

(***************************************************************************)
(* price_data called on its own                                            *)
(***************************************************************************)
ZZZZ == <<"Z","Z","Z","Z">>

PriceTickerLists ==
    { <<>>, <<AAPL>>, <<AAPL, ZZZZ>>, <<ZZZZ, AAPL>>, <<AAPL, AAPL>>,
      <<AAPL, MSFT, ZZZZ>> }

NoDownload == [raised |-> FALSE, n |-> 0, cols |-> <<>>]

PricesIdle ==
    /\ pd_pc = "idle"
    /\ pd_tickers = <<>>
    /\ pd_df = NoDownload
    /\ pd_ret = PdRaise("")

PricesInit ==
    /\ pd_pc = "ready"
    /\ pd_tickers \in PriceTickerLists
    /\ pd_df \in Downloads(pd_tickers)
    /\ pd_ret = PdRaise("")

CallPriceData ==
    /\ pd_pc = "ready"
    /\ pd_ret' = price_data(pd_tickers, pd_df)
    /\ pd_pc' = "done"
    /\ UNCHANGED <<pd_tickers, pd_df>>
    /\ UNCHANGED <<fvars, svars, bvars, uvars>>

\* the requested tickers for which the download has a Close column
Yielded(tickers_, df) ==
    {t \in Range(tickers_) : t \in DOMAIN df.cols /\ df.cols[t].close}

\* every Close column of the download holds at least one price
NoAllMissingSeries(df) ==
    \A t \in DOMAIN df.cols :
        df.cols[t].close => \E r \in 1..df.n : df.cols[t].series[r] # NaN

\* C6 as stated: price_data fails only when the provider returns no data at all
\* or no requested ticker yields a closing-price series; when a non-empty
\* proper subset of the requested tickers yields one, it returns a table whose
\* columns are exactly those tickers.  (Stated for downloads in which every
\* closing-price series holds at least one price.)
C6_FailsOnlyWithoutData ==
    (pd_pc = "done" /\ NoAllMissingSeries(pd_df)) =>
        LET y == Yielded(pd_tickers, pd_df)
        IN  /\ pd_ret.exc # "" => (pd_df.raised \/ df_empty(pd_df) \/ y = {})
            /\ (~pd_df.raised /\ ~df_empty(pd_df) /\ y # {} /\ y # Range(pd_tickers))
                 => (pd_ret.exc = "" /\ Range(pd_ret.table.columns) = y)

(***************************************************************************)
(* send_newsletter                                                         *)
(***************************************************************************)
NoVar == "<unset>"

\* os.getenv(name, default) on the value env of the variable
getenv(env, default) == IF env = NoVar THEN default ELSE env

\* md_body.replace(chr(10), '<br>')
replace_newlines(body) ==
    [i \in 1..Len(body) |-> IF body[i] = "\n" THEN "<br>" ELSE body[i]]

FromEmail == "luis.kerner@icloud.com"
Subject == "Your Personalised Financial Newsletter"

\* faulty variant: the key is not checked before the client is built and used
send_newsletter_unchecked(env, to_email, md_body, img64, accepted) ==
    LET sg_key == getenv(env, "")
        img_tag == IF img64 # <<>>
                   THEN <<"<img src=\"data:image/png;base64,">> \o img64
                        \o <<"\" width=\"600\">">>
                   ELSE <<>>
        html == <<"<html><body>">> \o replace_newlines(md_body) \o img_tag
                \o <<"</body></html>">>
        msg == [key |-> sg_key, from_email |-> FromEmail, to_emails |-> to_email,
                subject |-> Subject, html_content |-> html]
    IN  [exc |-> IF accepted THEN "" ELSE "send failed", submitted |-> <<msg>>]

\* send_newsletter(to_email, md_body, img64) in an environment whose
\* SENDGRID_API_KEY is env; accepted: whether SendGridAPIClient.send returns.
\* exc is the exception raised ("" for none), submitted the messages handed
\* to SendGridAPIClient.send.
send_newsletter(env, to_email, md_body, img64, accepted) ==
    LET sg_key == getenv(env, "")
        img_tag == IF img64 # <<>>
                   THEN <<"<img src=\"data:image/png;base64,">> \o img64
                        \o <<"\" width=\"600\">">>
                   ELSE <<>>
        html == <<"<html><body>">> \o replace_newlines(md_body) \o img_tag
                \o <<"</body></html>">>
        msg == [key |-> sg_key, from_email |-> FromEmail, to_emails |-> to_email,
                subject |-> Subject, html_content |-> html]
    IN  IF sg_key = ""
        THEN [exc |-> "SENDGRID_API_KEY not set", submitted |-> <<>>]
        ELSE [exc |-> IF accepted THEN "" ELSE "send failed", submitted |-> <<msg>>]

(***************************************************************************)
(* send_newsletter called on its own                                       *)
(***************************************************************************)
MaxSends == 2

Environments == {NoVar, "", "SG.key"}

SendEmails == {"ann@example.org"}
SendBodies == { <<"## News Highlights", "\n", "No relevant news today.">>, <<>> }
SendImages == { <<>>, <<"png:">> }

SendIdle ==
    /\ outbox = <<>>
    /\ s_calls = <<>>

SendInit ==
    /\ sg_env \in Environments
    /\ SendIdle

CallSendNewsletter ==
    /\ Len(s_calls) < MaxSends
    /\ \E to \in SendEmails, body \in SendBodies, img \in SendImages, accepted \in BOOLEAN :
          LET r == send_newsletter(sg_env, to, body, img, accepted)
          IN  /\ outbox' = outbox \o r.submitted
              /\ s_calls' = Append(s_calls, [to |-> to, md |-> body, img |-> img,
                                             exc |-> r.exc])
    /\ UNCHANGED <<sg_env, fvars, pdvars, bvars, uvars>>

KeyAbsent == sg_env = NoVar \/ sg_env = ""

\* C5: with the e-mail credential unset or empty, every send_newsletter call
\* raises the configuration error and hands no message to the e-mail service.
C5_NoSubmissionWithoutKey ==
    KeyAbsent =>
        /\ outbox = <<>>
        /\ \A i \in 1..Len(s_calls) : s_calls[i].exc = "SENDGRID_API_KEY not set"

C5_Witness ==
    /\ sg_env = NoVar
    /\ Len(s_calls) = 2
    /\ s_calls[1].img # <<>>

(***************************************************************************)
(* gpt, macro_overview, short_summary                                      *)
(*                                                                         *)
(* A reply of the completion service is [raised, content].                 *)
(***************************************************************************)
IsSpace(c) == c \in {" ", "\n", "\t"}

\* str.strip()
strip(s) ==
    LET keep == {i \in 1..Len(s) : ~IsSpace(s[i])}
    IN  IF keep = {} THEN <<>>
        ELSE SubSeq(s, CHOOSE i \in keep : \A j \in keep : i <= j,
                       CHOOSE i \in keep : \A j \in keep : j <= i)

GptReplies(prompt, model) ==
    { [raised |-> TRUE, content |-> <<>>],
      [raised |-> FALSE, content |-> <<" ", model, ": ">> \o prompt \o <<"\n">>] }

\* gpt(prompt, model): resp.choices[0].message.content.strip()
gpt(reply) == strip(reply.content)

MacroPrompt ==
    <<"As of ", "<today>", ", in <=200 words summarise last week's key global ",
      "macroeconomic and geopolitical trends an investor should know.">>

SummaryPrompt(title, link) ==
    <<"Summarise the following headline & link in 2-3 sentences for an investor.",
      "\n", "TITLE: ">> \o title \o <<"\n", "LINK: ", link>>

\* faulty variant: a failed summary leaves the summary empty
summary_or_nothing(title, reply) ==
    IF reply.raised THEN <<>> ELSE gpt(reply)

\* try: s = short_summary(title, link)  except Exception: s = title
summary_or_title(title, reply) ==
    IF reply.raised THEN title ELSE gpt(reply)

(***************************************************************************)
(* build_newsletter                                                        *)
(***************************************************************************)
NewsLimit == 20
SummaryCap == 6

Take(s, n) == SubSeq(s, 1, IF Len(s) < n THEN Len(s) ELSE n)

\* faulty variant: the slice is missing
all_matched(m) == m

\* matched[:6]
summarised(m) == Take(m, SummaryCap)

Placeholder == <<"No relevant news today.">>

\* faulty variant: the placeholder is missing
news_as_is(block) == block

\* article_block or 'No relevant news today.'
news_or_placeholder(block) == IF block = <<>> THEN Placeholder ELSE block

\* f"- **{t}** {s}\n  <{link}>\n"
entry(t, s, link) ==
    <<"- **">> \o t \o <<"** ">> \o s \o <<"\n", "  <", link, ">", "\n">>

RECURSIVE table_rows(_, _, _)
table_rows(columns, row, k) ==
    IF k > Len(columns) THEN <<>>
    ELSE <<"\n", "| ">> \o columns[k] \o <<" | ", ToString(row[k]), " |">>
         \o table_rows(columns, row, k + 1)

\* prices.tail(1).T.to_markdown()
to_markdown_last_row(table) ==
    <<"|    | last |", "\n", "|:---|---:|">>
    \o table_rows(table.columns, table.data[Len(table.data)], 1)

NewsHeader == "## News Highlights"

document(macro_, region_, table_md, block) ==
    <<"## Macroeconomic Overview", "\n">> \o macro_ \o <<"\n", "\n">>
    \o <<"## Latest 30-day Close (last row) - ", region_, "\n">> \o table_md
    \o <<"\n", "\n">>
    \o <<NewsHeader, "\n">> \o news_or_placeholder(block)

BuildIdle ==
    /\ pc = "idle"
    /\ tickers = <<>>
    /\ region = ""
    /\ macro = <<>>
    /\ matched = <<>>
    /\ idx = 0
    /\ article_block = <<>>
    /\ prices = NoTable
    /\ chart64 = <<>>
    /\ md = <<>>
    /\ exc = ""
    /\ log = <<>>

BuildFrame(at, t, r) ==
    /\ pc' = at
    /\ tickers' = t
    /\ region' = r
    /\ macro' = <<>>
    /\ matched' = <<>>
    /\ idx' = 0
    /\ article_block' = <<>>
    /\ prices' = NoTable
    /\ chart64' = <<>>
    /\ md' = <<>>
    /\ exc' = ""
    /\ log' = <<>>

\* the frame of a call build_newsletter(t, r) at its first statement
BuildEntered(t, r) == BuildFrame("macro", t, r)

\* faulty variant: the exception is swallowed and the function returns
raise_swallowed(msg, event) ==
    /\ pc' = "returned"
    /\ exc' = ""
    /\ log' = Append(log, event)

\* raise: the call ends with the exception
Raise(msg, event) ==
    /\ pc' = "raised"
    /\ exc' = msg
    /\ log' = Append(log, event)

\* faulty variant: the price step is skipped
after_summaries_assemble == "assemble"

\* the statement after the summary loop: prices, chart64 = price_data(tickers)
after_summaries == "prices"

\* macro = macro_overview()
macro_step ==
    /\ pc = "macro"
    /\ \E reply \in GptReplies(MacroPrompt, "gpt-4o-mini") :
          IF reply.raised
          THEN /\ Raise("completion failed", "macro:raise")
               /\ UNCHANGED <<macro>>
          ELSE /\ macro' = gpt(reply)
               /\ pc' = "fetch"
               /\ log' = Append(log, "macro:ok")
               /\ UNCHANGED <<exc>>
    /\ UNCHANGED <<tickers, region, matched, idx, article_block, prices, chart64, md>>
    /\ UNCHANGED <<fvars, pdvars, svars, uvars>>

FeedOutcomes(feeds) ==
    {[raised |-> TRUE, entries |-> <<>>]} \cup
    {[raised |-> FALSE, entries |-> f] : f \in feeds}

\* news = fetch_yahoo_news(tickers); matched = filter_news(news, tickers);
\* article_block = ""
fetch_step(feeds) ==
    /\ pc = "fetch"
    /\ \E feed \in FeedOutcomes(feeds) :
          IF feed.raised
          THEN /\ Raise("feed failed", "feed:raise")
               /\ UNCHANGED <<matched, idx, article_block>>
          ELSE LET news == Take(feed.entries, NewsLimit)
                   m == filter_news(news, tickers)
               IN  /\ matched' = m
                   /\ article_block' = <<>>
                   /\ idx' = 1
                   /\ pc' = IF summarised(m) = <<>> THEN after_summaries ELSE "summary"
                   /\ log' = Append(log, "feed:ok")
                   /\ UNCHANGED <<exc>>
    /\ UNCHANGED <<tickers, region, macro, prices, chart64, md>>
    /\ UNCHANGED <<fvars, pdvars, svars, uvars>>

\* one pass of  for t, title, link in matched[:6]
summary_step ==
    /\ pc = "summary"
    /\ LET t == summarised(matched)[idx][1]
           title == summarised(matched)[idx][2]
           link == summarised(matched)[idx][3]
       IN  \E reply \in GptReplies(SummaryPrompt(title, link), "gpt-3.5-turbo") :
              /\ article_block' =
                    article_block \o entry(t, summary_or_title(title, reply), link)
              /\ log' = Append(log, IF reply.raised THEN "summary:raise"
                                                    ELSE "summary:ok")
    /\ idx' = idx + 1
    /\ pc' = IF idx + 1 > Len(summarised(matched)) THEN after_summaries ELSE "summary"
    /\ UNCHANGED <<tickers, region, macro, matched, prices, chart64, md, exc>>
    /\ UNCHANGED <<fvars, pdvars, svars, uvars>>

BuildDownloads(t) == {df \in Downloads(t) : df.n <= 1}

\* prices, chart64 = price_data(tickers)
prices_step ==
    /\ pc = "prices"
    /\ \E df \in BuildDownloads(tickers) :
          LET r == price_data(tickers, df)
          IN  IF r.exc # ""
              THEN /\ Raise(r.exc, "prices:raise")
                   /\ UNCHANGED <<prices, chart64>>
              ELSE /\ prices' = r.table
                   /\ chart64' = r.png64
                   /\ pc' = "assemble"
                   /\ log' = Append(log, "prices:ok")
                   /\ UNCHANGED <<exc>>
    /\ UNCHANGED <<tickers, region, macro, matched, idx, article_block, md>>
    /\ UNCHANGED <<fvars, pdvars, svars, uvars>>

\* table_md = ...; md = ...; return md, chart64, prices
assemble_step ==
    /\ pc = "assemble"
    /\ md' = document(macro, region, to_markdown_last_row(prices), article_block)
    /\ pc' = "returned"
    /\ log' = Append(log, "assembled")
    /\ UNCHANGED <<tickers, region, macro, matched, idx, article_block, prices,
                   chart64, exc>>
    /\ UNCHANGED <<fvars, pdvars, svars, uvars>>

(***************************************************************************)
(* build_newsletter called on its own                                      *)
(***************************************************************************)
MaxShortFeed == 1
MaxFeed == 9

AB == <<"A","B">>

BuildArticles == { << <<"a","b"," ","u","p">>, "l1" >>, << <<"o","i","l">>, "l2" >> }

\* a feed of k entries in which three of every four match the ticker AB
LongFeed(k) ==
    [i \in 1..k |-> IF i % 4 = 0 THEN << <<"o","i","l">>, "l2" >>
                    ELSE IF i % 2 = 1 THEN << <<"a","b"," ","u","p">>, "l1" >>
                    ELSE << <<"A","B"," ","d","i","p","s">>, "l3" >>]

BuildFeeds == SeqsUpTo(BuildArticles, MaxShortFeed) \cup {LongFeed(k) : k \in 0..MaxFeed}

BuildTickerLists == { <<>>, <<AB>>, <<ZZZZ, AB>> }

BuildRegions == {"USA"}

CallBuildNewsletter ==
    /\ pc = "idle"
    /\ \E t \in BuildTickerLists, r \in BuildRegions : BuildEntered(t, r)
    /\ UNCHANGED <<fvars, pdvars, svars, uvars>>

(***************************************************************************)
(* ui.py: the Streamlit script.  Every interaction with a widget runs the  *)
(* script from the top; st.button(label) is True only in the run started   *)
(* by a press of that button, and a widget is on the page only if the last *)
(* run rendered it.  The user is taken to interact when no run is under    *)
(* way.                                                                    *)
(***************************************************************************)
Regions == <<"USA", "Europe", "Germany", "Asia", "Australia">>

UIEmails == {"", "ann@example.org"}
UIRegionChoices == {1, 3}
TypedTickers == { <<>>, <<"a","b">> }
SP500 == { AB, <<"O","I","L">>, <<"Z","Z">> }
UIEnvironments == {NoVar, "SG.key"}

st_button(label, c) == c = label

EmptyPage ==
    [error |-> "", detail |-> "", preview |-> <<>>, image |-> <<>>,
     table |-> NoTable, send_button |-> FALSE, success |-> ""]

UIIdle ==
    /\ email = ""
    /\ ui_region = Regions[1]
    /\ fields = << <<>>, <<>>, <<>> >>
    /\ clicked = ""
    /\ upc = "idle"
    /\ page = EmptyPage
    /\ confirmed = <<>>

\* tickers = [t.upper() for t in st.session_state.tickers if t]
submitted_tickers(f) ==
    LET nonempty == SelectSeq(f, LAMBDA t : t # <<>>)
    IN  [i \in 1..Len(nonempty) |-> upper(nonempty[i])]

\* random.sample(sp, 3)
Samples(sp) ==
    {smp \in [1..3 -> sp] : \A i, j \in 1..3 : i # j => smp[i] # smp[j]}

\* lines 30-37 of a run started by c, with the form holding e, r, f
submit_part(c, e, r, f) ==
    IF st_button("Submit", c)
    THEN IF ~(e # "" /\ submitted_tickers(f) # <<>>)
         THEN /\ page' = [EmptyPage EXCEPT
                            !.error = "Please enter an e-mail and at least one ticker."]
              /\ upc' = "idle"                                  \* st.stop()
              /\ BuildFrame("idle", <<>>, "")
         ELSE /\ page' = EmptyPage
              /\ upc' = "building"
              /\ BuildEntered(submitted_tickers(f), r)
    ELSE /\ page' = EmptyPage
         /\ upc' = "idle"
         /\ BuildFrame("idle", <<>>, "")

\* one run of the script up to its call of build_newsletter
script_run(c, e, r, f) ==
    /\ clicked' = c
    /\ email' = e
    /\ ui_region' = r
    /\ IF st_button("Random (S&P 500)", c)
       THEN \E read_ok \in BOOLEAN :
               IF read_ok
               THEN \E smp \in Samples(SP500) :
                       /\ fields' = smp
                       /\ submit_part(c, e, r, smp)
               ELSE /\ fields' = f                      \* pd.read_html raised
                    /\ page' = [EmptyPage EXCEPT !.error = "read_html failed"]
                    /\ upc' = "idle"
                    /\ BuildFrame("idle", <<>>, "")
       ELSE /\ fields' = f
            /\ submit_part(c, e, r, f)
    /\ UNCHANGED <<fvars, pdvars, svars>>

EditEmail ==
    /\ upc = "idle"
    /\ \E e \in UIEmails \ {email} : script_run("", e, ui_region, fields)
    /\ confirmed' = <<>>

SelectRegion ==
    /\ upc = "idle"
    /\ \E k \in UIRegionChoices :
          /\ Regions[k] # ui_region
          /\ script_run("", email, Regions[k], fields)
    /\ confirmed' = <<>>

EditTicker ==
    /\ upc = "idle"
    /\ \E i \in 1..3 : \E t \in TypedTickers \ {fields[i]} :
          script_run("", email, ui_region, [fields EXCEPT ![i] = t])
    /\ confirmed' = <<>>

ClickRandom ==
    /\ upc = "idle"
    /\ script_run("Random (S&P 500)", email, ui_region, fields)
    /\ confirmed' = <<>>

ClickSubmit ==
    /\ upc = "idle"
    /\ script_run("Submit", email, ui_region, fields)
    /\ confirmed' = <<>>

\* the button exists only on a page whose run rendered it
ClickSendNewsletter ==
    /\ upc = "idle"
    /\ page.send_button
    /\ script_run("Send Newsletter", email, ui_region, fields)
    /\ confirmed' = << [to |-> email, md |-> page.preview, img |-> page.image] >>

\* build_newsletter returned: lines 39-45
UIPreview ==
    /\ upc = "building"
    /\ pc = "returned"
    /\ page' = [page EXCEPT !.table = [columns |-> prices.columns,       \* tail(1)
                                      data |-> <<prices.data[Len(prices.data)]>>],
                            !.preview = md,
                            !.image = IF chart64 # <<>> THEN chart64 ELSE <<>>]
    /\ upc' = "send_button"
    /\ UNCHANGED <<email, ui_region, fields, clicked, confirmed>>
    /\ UNCHANGED <<fvars, pdvars, svars, bvars>>

\* lines 47-50, and the except clause for what send_newsletter raises
UISendButton ==
    /\ upc = "send_button"
    /\ IF st_button("Send Newsletter", clicked)
       THEN \E accepted \in BOOLEAN :
               LET r == send_newsletter(sg_env, email, md, chart64, accepted)
               IN  /\ outbox' = outbox \o r.submitted
                   /\ s_calls' = Append(s_calls, [to |-> email, md |-> md,
                                                  img |-> chart64, exc |-> r.exc])
                   /\ page' = IF r.exc # ""
                              THEN [page EXCEPT !.send_button = TRUE,
                                       !.error = "Error creating newsletter: ",
                                       !.detail = r.exc]
                              ELSE [page EXCEPT !.send_button = TRUE,
                                       !.success = "Newsletter sent to "]
       ELSE /\ page' = [page EXCEPT !.send_button = TRUE]
            /\ UNCHANGED <<outbox, s_calls>>
    /\ upc' = "idle"
    /\ UNCHANGED <<sg_env, email, ui_region, fields, clicked, confirmed>>
    /\ UNCHANGED <<fvars, pdvars, bvars>>

\* build_newsletter raised: except Exception as e: st.error(...)
UIError ==
    /\ upc = "building"
    /\ pc = "raised"
    /\ page' = [page EXCEPT !.error = "Error creating newsletter: ", !.detail = exc]
    /\ upc' = "idle"
    /\ UNCHANGED <<email, ui_region, fields, clicked, confirmed>>
    /\ UNCHANGED <<fvars, pdvars, svars, bvars>>

(***************************************************************************)
(* Specifications                                                          *)
(***************************************************************************)
InitFilter ==
    /\ FilterInit /\ PricesIdle /\ sg_env = NoVar /\ SendIdle /\ BuildIdle /\ UIIdle

SpecFilter == InitFilter /\ [][CallFilterNews]_vars

InitPrices ==
    /\ FilterIdle /\ PricesInit /\ sg_env = NoVar /\ SendIdle /\ BuildIdle /\ UIIdle

SpecPrices == InitPrices /\ [][CallPriceData]_vars

InitSend ==
    /\ FilterIdle /\ PricesIdle /\ SendInit /\ BuildIdle /\ UIIdle

SpecSend == InitSend /\ [][CallSendNewsletter]_vars

InitBuild ==
    /\ FilterIdle /\ PricesIdle /\ sg_env = NoVar /\ SendIdle /\ BuildIdle /\ UIIdle

NextBuild ==
    \/ CallBuildNewsletter
    \/ macro_step
    \/ fetch_step(BuildFeeds)
    \/ summary_step
    \/ prices_step
    \/ assemble_step

SpecBuild == InitBuild /\ [][NextBuild]_vars

InitUI ==
    /\ FilterIdle /\ PricesIdle /\ sg_env \in UIEnvironments /\ SendIdle
    /\ BuildIdle /\ UIIdle

NextUI ==
    \/ EditEmail
    \/ SelectRegion
    \/ EditTicker
    \/ ClickRandom
    \/ ClickSubmit
    \/ ClickSendNewsletter
    \/ macro_step
    \/ fetch_step(SeqsUpTo(BuildArticles, MaxShortFeed))
    \/ summary_step
    \/ prices_step
    \/ assemble_step
    \/ UIPreview
    \/ UISendButton
    \/ UIError

SpecUI == InitUI /\ [][NextUI]_vars

(***************************************************************************)
(* Reading a document and a log                                            *)
(***************************************************************************)
Has(l, e) == \E i \in 1..Len(l) : l[i] = e

Last(l) == l[Len(l)]

\* the text after the "## News Highlights" line
NewsSection(doc) ==
    LET h == CHOOSE i \in 1..Len(doc) : doc[i] = NewsHeader
    IN  SubSeq(doc, h + 2, Len(doc))

EntryStarts(sec) == {i \in 1..Len(sec) : sec[i] = "- **"}

EntryCount(sec) == Cardinality(EntryStarts(sec))

\* the k-th entry of sec, from its "- **" to the line break that ends it
EntryText(sec, k) ==
    LET i == Kth(EntryStarts(sec), k)
        j == IF k < EntryCount(sec) THEN Kth(EntryStarts(sec), k + 1) ELSE Len(sec) + 1
    IN  SubSeq(sec, i, j - 1)

\* sec holds one entry for each element of m, in m's order, each with the
\* element's ticker and link and with its title or a generated summary
EntriesOf(sec, m) ==
    /\ EntryCount(sec) = Len(m)
    /\ \A k \in 1..Len(m) :
          \E reply \in GptReplies(SummaryPrompt(m[k][2], m[k][3]), "gpt-3.5-turbo") :
             EntryText(sec, k) =
                <<"- **">> \o m[k][1] \o <<"** ">>
                \o (IF reply.raised THEN m[k][2] ELSE strip(reply.content))
                \o <<"\n", "  <", m[k][3], ">", "\n">>

SummaryEvents == SelectSeq(log, LAMBDA e : e \in {"summary:ok", "summary:raise"})

\* the summary in the k-th entry of sec, whose ticker is t
EntrySummary(sec, k, t) ==
    LET e == EntryText(sec, k)
    IN  SubSeq(e, Len(t) + 3, Len(e) - 5)

Finished == pc \in {"returned", "raised"}

\* C4: a failed summary call is replaced by the article's title, is not
\* retried, and never ends build_newsletter: the loop goes on to the next
\* article and to the price step, and only a failure of the macro overview,
\* of the feed or of the prices makes build_newsletter raise.
C4_SummaryFailureFallsBackToTitle ==
    /\ Len(SummaryEvents) <= Len(summarised(matched))
    /\ EntryCount(article_block) = Len(SummaryEvents)
    /\ \A k \in 1..Len(SummaryEvents) :
          SummaryEvents[k] = "summary:raise" =>
              EntrySummary(article_block, k, summarised(matched)[k][1])
                  = summarised(matched)[k][2]
    /\ pc \in {"prices", "assemble", "returned"} =>
          Len(SummaryEvents) = Len(summarised(matched))
    /\ pc = "raised" => Last(log) \in {"macro:raise", "feed:raise", "prices:raise"}
    /\ pc = "returned" => EntriesOf(article_block, summarised(matched))

C4_Witness ==
    /\ pc = "returned"
    /\ SummaryEvents = <<"summary:raise", "summary:ok">>
    /\ Has(log, "prices:ok")
    /\ EntrySummary(NewsSection(md), 1, matched[1][1]) = matched[1][2]
    /\ EntrySummary(NewsSection(md), 2, matched[2][1]) # matched[2][2]

\* C7 as stated: the news section of the returned document holds one entry
\* for each matched article, in the order of filter_news, whatever their number.
C7_OneEntryPerMatchedArticle ==
    pc = "returned" /\ matched # <<>> => EntriesOf(NewsSection(md), matched)

\* C7 amended: the news section of the returned document holds one entry for
\* each of the first six matched articles, in the order of filter_news; a
\* seventh and later matched article has no entry.
C7_OneEntryPerFirstSixMatched ==
    pc = "returned" /\ matched # <<>> =>
        EntriesOf(NewsSection(md), Take(matched, 6))

C7_Witness ==
    /\ pc = "returned"
    /\ Len(matched) = 7
    /\ EntryCount(NewsSection(md)) = 6
    /\ matched[1] # matched[2]

\* C8 as stated, for the empty ticker list: a run of the pipeline on an empty
\* ticker list, in which the macro overview and the feed were obtained and the
\* price download returned, yields a document whose news section is the
\* placeholder.
C8_EmptyTickerListYieldsPlaceholder ==
    (Finished /\ tickers = <<>> /\ Has(log, "feed:ok") /\ exc # "download failed") =>
        (pc = "returned" /\ NewsSection(md) = Placeholder)

\* C8 amended: whenever build_newsletter returns a document, its news section
\* is the placeholder exactly when the matched set is empty; on an empty
\* ticker list build_newsletter returns no document (price_data raises).
C8_PlaceholderIffNoMatchInReturnedDocument ==
    /\ pc = "returned" => ((NewsSection(md) = Placeholder) <=> (matched = <<>>))
    /\ pc = "returned" => tickers # <<>>
    /\ (Finished /\ tickers = <<>>) => pc = "raised"

C8_Witness ==
    /\ pc = "returned"
    /\ matched = <<>>
    /\ NewsSection(md) = Placeholder
    /\ Len(tickers) = 2

Resolved == {"macro:ok", "feed:ok", "prices:ok"}

\* C1: the statement that would deliver (the "Send Newsletter" branch of the
\* script, and every send_newsletter call) is reached only after the document
\* has been assembled, and the document is assembled only after the macro
\* overview, the news block (every summary a generated text or the title)
\* and the price table have each been obtained.
C1_DeliveryAfterAssemblyAfterSections ==
    /\ (pc = "assemble" \/ Has(log, "assembled")) =>
          /\ \A e \in Resolved : Has(log, e)
          /\ Len(SummaryEvents) = Len(summarised(matched))
          /\ EntryCount(article_block) = Len(summarised(matched))
          /\ prices # NoTable
    /\ Has(log, "assembled") => (Last(log) = "assembled" /\ md # <<>>)
    /\ upc = "send_button" => (pc = "returned" /\ Has(log, "assembled"))
    /\ \A i \in 1..Len(s_calls) : s_calls[i].md # <<>>

C1_Witness ==
    /\ upc = "send_button"
    /\ SummaryEvents = <<"summary:raise">>
    /\ page.preview = md
    /\ Len(prices.columns) = 2

Failures == {"macro:raise", "feed:raise", "prices:raise"}

\* C9: a failure of the macro overview, of the feed or of the prices ends
\* build_newsletter with that exception and without a document; the script
\* then shows the error, renders neither preview nor "Send Newsletter"
\* button, and calls send_newsletter at no point of that run; a document is
\* returned only when none of the three failed.
C9_FailurePropagatesToErrorMessage ==
    /\ (\E e \in Failures : Has(log, e)) =>
          /\ pc = "raised"
          /\ Last(log) \in Failures
          /\ exc # ""
          /\ md = <<>>
          /\ ~Has(log, "assembled")
          /\ upc \in {"building", "idle"}
    /\ (upc = "idle" /\ pc = "raised") =>
          /\ page.error = "Error creating newsletter: "
          /\ page.detail = exc
          /\ page.preview = <<>>
          /\ ~page.send_button
          /\ page.success = ""
          /\ s_calls = <<>>
          /\ outbox = <<>>
    /\ pc = "raised" => (\E e \in Failures : Last(log) = e)

C9_Witness ==
    /\ upc = "idle"
    /\ pc = "raised"
    /\ Last(log) = "prices:raise"
    /\ Has(log, "summary:raise")
    /\ page.detail = "IndexError"

\* C10 as stated: once the run started by a press of "Send Newsletter" has
\* ended, send_newsletter has been invoked with the e-mail, document and chart
\* that were on the page when the button was pressed; and send_newsletter is
\* invoked only in a run started by such a press.
C10_ConfirmationLeadsToSend ==
    /\ [](  (upc = "idle" /\ confirmed # <<>>) =>
               \E i \in 1..Len(s_calls) :
                  /\ s_calls[i].to = confirmed[1].to
                  /\ s_calls[i].md = confirmed[1].md
                  /\ s_calls[i].img = confirmed[1].img )
    /\ [][ s_calls' # s_calls => confirmed # <<>> ]_vars

====
